---- MODULE Spec2Model ----
(***************************************************************************)
(* Cooperative futures runtime of assign7: the Poll/Future contract, the   *)
(* Join and AndThen combinators, and the single-thread and multi-thread    *)
(* executors.  Each component has its own specification; the variables of  *)
(* the other components stay at their initial value.  The binary search   *)
(* tree of assign6 and the session channel and cart of assign8 follow.     *)
(***************************************************************************)
EXTENDS Integers, Sequences, FiniteSets, TLC

\* ---- bounds -------------------------------------------------------------
MaxNeed == 5        \* most polls a leaf future needs before it is Ready
MaxVal == 2         \* leaf values are 0..MaxVal
MaxPolls == 12      \* most polls a driver makes of one combinator
MaxFuts == 3        \* most futures handed to an executor
MaxIdleWaits == 2   \* most calls of BlockingExecutor::wait
MaxWaits == 2       \* most calls of SingleThreadExecutor::wait
MaxThreads == 2     \* most worker threads one FileReader starts
MaxReaderPolls == 6 \* most polls of one FileReader
MaxKey == 3         \* tree elements are 0..MaxKey
MaxBufs == 3        \* most buffers handed to tcp_client
MaxItems == 3       \* most items in a cart
MaxCost == 1        \* item costs are -MaxCost..MaxCost
NumThreads == 2     \* num_threads given to MultiThreadExecutor::new

Values == 0 .. MaxVal
Needs == 1 .. MaxNeed
Kinds == {"Once", "Restart"}

VARIABLES at, jn, fut, nextId, ste, retained,
          queue, lock, wk, main, owners, polledBy, late,
          focus, im, mp, rd, blk,
          bt, tcp, cart

vars == <<at, jn, fut, nextId, ste, retained,
          queue, lock, wk, main, owners, polledBy, late,
          focus, im, mp, rd, blk,
          bt, tcp, cart>>

\* bt is a BinaryTree of assign6 with its last operation, tcp the two ends
\* of a session channel of assign8 and cart the shopping cart of assign8.
appVars == <<bt, tcp, cart>>

\* focus names the component a behaviour exercises; im is an Immediate, mp a
\* Map, rd a FileReader with its worker threads, blk a BlockingExecutor.
leafVars == <<focus, im, mp, rd, blk>>
futVars == <<at, jn, focus, im, mp, rd, blk>>
heapVars == <<fut, nextId>>
steVars == <<ste, retained>>
mtVars == <<queue, lock, wk, main, owners, polledBy, late>>

Max(a, b) == IF a >= b THEN a ELSE b

\* ---- leaf futures -------------------------------------------------------
\* A leaf future is a value behind the Future trait.  `left` is the number
\* of polls until the next Ready.  A future of kind "Once" holds its value
\* in an Option that the Ready poll takes (Immediate, and every future that
\* ends in Join::Done or AndThen::Done): a later poll panics.  A future of
\* kind "Restart" is the thread-backed reader: the Ready poll takes the
\* join handle, so the next poll finds no thread, starts one and returns
\* NotReady, and the poll after that reads the flag that is still set and
\* returns Ready again.  need remembers the polls the future needed when it
\* was built; polls, readies and over are history counters.
NoFut == [left |-> 0, val |-> 0, after |-> "None", need |-> 0,
          polls |-> 0, readies |-> 0, over |-> 0]

NewFut(k, v, kind) ==
    [left |-> k, val |-> v, after |-> kind, need |-> k,
     polls |-> 0, readies |-> 0, over |-> 0]

Counted(f) ==
    [f EXCEPT !.polls = @ + 1, !.over = IF f.readies > 0 THEN @ + 1 ELSE @]

\* What the Ready poll leaves behind: the reader has thread = None and a set
\* done_flag, so it is Ready again two polls later; an emptied Option
\* (left = 0) makes every later poll panic.
AfterReady(f) == IF f.after = "Restart" THEN 2 ELSE 0

PollFut(f) ==
    IF f.left = 0
    THEN [fut |-> Counted(f), res |-> "Panic", item |-> 0]
    ELSE IF f.left = 1
    THEN [fut |-> [Counted(f) EXCEPT !.readies = @ + 1, !.left = AfterReady(f)],
          res |-> "Ready", item |-> f.val]
    ELSE [fut |-> [Counted(f) EXCEPT !.left = @ - 1], res |-> "NotReady", item |-> 0]

\* The futures a caller can build: the thread-backed reader returns NotReady
\* on its first poll, so a "Restart" future needs at least two polls.
Shapes == {s \in Needs \X Kinds : s[2] = "Restart" => s[1] >= 2}

\* The shapes handed to the thread pool: Ready at once, Ready on the second
\* poll, and the slowest future.
PoolShapes == {s \in Shapes : s[1] \in {1, 2, MaxNeed}}

\* ---- Immediate ----------------------------------------------------------
\* t is the Option holding the value: <<v>> for Some(v), <<>> for None.
ImmediateNew(v) == [t |-> <<v>>, v |-> v, polls |-> 0, readies |-> 0,
                    result |-> "None", item |-> 0]

\* Immediate::poll: Ready(self.t.take().unwrap())
ImmediatePoll(m) ==
    LET c == [m EXCEPT !.polls = @ + 1] IN
    IF m.t = <<>>
    THEN [c EXCEPT !.result = "Panic"]
    ELSE [c EXCEPT !.t = <<>>, !.readies = @ + 1, !.result = "Ready", !.item = m.t[1]]

ImIdle == ImmediateNew(0)

\* ---- Map ----------------------------------------------------------------
\* The transform handed to map, here x + 1.
Transform(x) == x + 1

\* fun is TRUE while the Option holds the transform; calls counts its
\* invocations and early those made on a poll whose child was not Ready.
MapNew(k, x, kind) ==
    [fut |-> NewFut(k, x, kind), fun |-> TRUE, k |-> k, x |-> x,
     calls |-> 0, early |-> 0, polls |-> 0, readies |-> 0,
     result |-> "None", item |-> 0]

\* The match of Map::poll on the child's poll p.
MapArmEager(m, p) ==
    LET c == [m EXCEPT !.polls = @ + 1] IN
    IF p.res = "Panic" THEN [c EXCEPT !.result = "Panic"]
    ELSE IF ~m.fun THEN [c EXCEPT !.fun = FALSE, !.result = "Panic"]
    ELSE [c EXCEPT !.fun = FALSE, !.calls = @ + 1,
                   !.early = IF p.res = "Ready" THEN @ ELSE @ + 1,
                   !.readies = @ + 1,
                   !.result = "Ready", !.item = Transform(p.item)]

MapArm(m, p) ==
    LET c == [m EXCEPT !.polls = @ + 1] IN
    IF p.res = "Panic" THEN [c EXCEPT !.result = "Panic"]
    ELSE IF p.res = "NotReady" THEN [c EXCEPT !.result = "NotReady"]
    ELSE IF ~m.fun THEN [c EXCEPT !.fun = FALSE, !.result = "Panic"]
    ELSE [c EXCEPT !.fun = FALSE, !.calls = @ + 1, !.readies = @ + 1,
                   !.result = "Ready", !.item = Transform(p.item)]

\* Map::poll over a leaf child.
MapPoll(m) ==
    LET p == PollFut(m.fut) IN MapArm([m EXCEPT !.fut = p.fut], p)

MpIdle == MapNew(1, 0, "Once")

\* A driver that respects the contract.
MpPoll ==
    /\ mp.result \in {"None", "NotReady"}
    /\ mp.polls < MaxPolls
    /\ mp' = MapPoll(mp)
    /\ UNCHANGED <<appVars, at, jn, heapVars, steVars, mtVars, focus, im, rd, blk>>

\* ---- AndThen ------------------------------------------------------------
\* The continuation handed to and_then: given the first item it builds the
\* second future, here one that needs k2 polls and yields x + 3.
Continuation(x, k2, kind) == NewFut(k2, x + 3, kind)

AndThenNew(k1, x, kind1, k2, kind2) ==
    [state |-> "First", first |-> NewFut(k1, x, kind1), second |-> NoFut,
     k1 |-> k1, k2 |-> k2, x |-> x, kind2 |-> kind2,
     calls |-> 0, polls |-> 0, readies |-> 0, result |-> "None", item |-> 0]

\* The state AndThen::poll stores once the first future returned Ready and
\* the derived future was polled.
AndThenAfterFirstStays(res2) == IF res2 = "Ready" THEN "Done" ELSE "First"

AndThenAfterFirst(res2) == "Done"

\* poll_result = second.poll(): the derived future is polled in the call
\* that built it.
EagerPollSkipped(second) == [fut |-> second, res |-> "NotReady", item |-> 0]

EagerPoll(second) == PollFut(second)

\* One call of AndThen::poll.  `second` keeps the derived future for
\* inspection also after the combinator has dropped it.
AndThenPoll(a) ==
    LET b == [a EXCEPT !.polls = @ + 1] IN
    CASE a.state = "First" ->
           LET p1 == PollFut(a.first) IN
           IF p1.res = "Panic"
           THEN [b EXCEPT !.first = p1.fut, !.result = "Panic"]
           ELSE IF p1.res = "Ready"
           THEN LET p2 == EagerPoll(Continuation(p1.item, a.k2, a.kind2)) IN
                [b EXCEPT !.first = p1.fut, !.second = p2.fut, !.calls = @ + 1,
                          !.result = p2.res, !.item = p2.item,
                          !.readies = IF p2.res = "Ready" THEN @ + 1 ELSE @,
                          !.state = AndThenAfterFirst(p2.res)]
           ELSE [b EXCEPT !.first = p1.fut, !.result = "NotReady"]
      [] a.state = "Second" ->
           LET p2 == PollFut(a.second) IN
           IF p2.res = "Panic"
           THEN [b EXCEPT !.second = p2.fut, !.result = "Panic"]
           ELSE IF p2.res = "Ready"
           THEN [b EXCEPT !.second = p2.fut, !.result = "Ready", !.item = p2.item,
                          !.readies = @ + 1, !.state = "Done"]
           ELSE [b EXCEPT !.second = p2.fut, !.result = "NotReady"]
      [] OTHER -> [b EXCEPT !.result = "Panic"]

AtIdle == AndThenNew(1, 0, "Once", 1, "Once")

\* A driver that respects the contract: it polls until a poll returns Ready.
AtPoll ==
    /\ at.result \in {"None", "NotReady"}
    /\ at.polls < MaxPolls
    /\ at' = AndThenPoll(at)
    /\ UNCHANGED <<appVars, jn, heapVars, steVars, mtVars, leafVars>>

\* ---- Join ---------------------------------------------------------------
JoinNew(ka, a, kindA, kb, b, kindB) ==
    [state |-> "BothRunning", f |-> NewFut(ka, a, kindA), g |-> NewFut(kb, b, kindB),
     f_item |-> 0, g_item |-> 0, ka |-> ka, kb |-> kb, a |-> a, b |-> b,
     polls |-> 0, readies |-> 0, result |-> "None", item |-> <<0, 0>>,
     prev |-> "None", order |-> <<>>]

\* The pair a finished join yields: the first child's item, then the second's.
JoinItemSwapped(f_item, g_item) == <<g_item, f_item>>

JoinItem(f_item, g_item) == <<f_item, g_item>>

\* The arms of the BothRunning match on (f.poll(), g.poll()).
BothRunningArmForgets(rf, rg) ==
    CASE rf = "Ready" /\ rg = "Ready" -> "Done"
      [] rg = "Ready" -> "SecondDone"
      [] OTHER -> "BothRunning"

BothRunningArm(rf, rg) ==
    CASE rf = "Ready" /\ rg = "Ready" -> "Done"
      [] rf = "Ready" -> "FirstDone"
      [] rg = "Ready" -> "SecondDone"
      [] OTHER -> "BothRunning"

\* match (self.f.poll(), self.g.poll()): the tuple evaluates both polls,
\* whatever the first returned.
BothRunningShortCircuit(rf) == rf # "Ready"

BothRunningPollsB(rf) == TRUE

\* One call of Join::poll.  prev is the state the call started in and order
\* the children it polled, in the order it polled them.
JoinPoll(j) ==
    LET c == [j EXCEPT !.polls = @ + 1, !.prev = j.state] IN
    CASE j.state = "FirstDone" ->
           LET pg == PollFut(j.g) IN
           IF pg.res = "Panic"
           THEN [c EXCEPT !.g = pg.fut, !.order = <<"B">>, !.result = "Panic"]
           ELSE IF pg.res = "Ready"
           THEN [c EXCEPT !.g = pg.fut, !.order = <<"B">>, !.g_item = pg.item,
                          !.result = "Ready", !.item = JoinItem(j.f_item, pg.item),
                          !.readies = @ + 1, !.state = "Done"]
           ELSE [c EXCEPT !.g = pg.fut, !.order = <<"B">>, !.result = "NotReady"]
      [] j.state = "SecondDone" ->
           LET pf == PollFut(j.f) IN
           IF pf.res = "Panic"
           THEN [c EXCEPT !.f = pf.fut, !.order = <<"A">>, !.result = "Panic"]
           ELSE IF pf.res = "Ready"
           THEN [c EXCEPT !.f = pf.fut, !.order = <<"A">>, !.f_item = pf.item,
                          !.result = "Ready", !.item = JoinItem(pf.item, j.g_item),
                          !.readies = @ + 1, !.state = "Done"]
           ELSE [c EXCEPT !.f = pf.fut, !.order = <<"A">>, !.result = "NotReady"]
      [] j.state = "BothRunning" ->
           LET pf == PollFut(j.f) IN
           IF pf.res = "Panic"
           THEN [c EXCEPT !.f = pf.fut, !.order = <<"A">>, !.result = "Panic"]
           ELSE
           LET pg == IF BothRunningPollsB(pf.res) THEN PollFut(j.g)
                     ELSE [fut |-> j.g, res |-> "NotReady", item |-> 0]
               d == [c EXCEPT !.f = pf.fut, !.g = pg.fut,
                              !.order = IF BothRunningPollsB(pf.res) THEN <<"A", "B">>
                                        ELSE <<"A">>] IN
           IF pg.res = "Panic"
           THEN [d EXCEPT !.result = "Panic"]
           ELSE
           LET next == BothRunningArm(pf.res, pg.res) IN
           [d EXCEPT !.f_item = IF pf.res = "Ready" THEN pf.item ELSE @,
                     !.g_item = IF pg.res = "Ready" THEN pg.item ELSE @,
                     !.result = IF next = "Done" THEN "Ready" ELSE "NotReady",
                     !.readies = IF next = "Done" THEN @ + 1 ELSE @,
                     !.item = IF next = "Done" THEN JoinItem(pf.item, pg.item) ELSE @,
                     !.state = next]
      [] OTHER -> [c EXCEPT !.order = <<>>, !.result = "Panic"]

JnIdle == JoinNew(1, 0, "Once", 1, 0, "Once")

JnPoll ==
    /\ jn.result \in {"None", "NotReady"}
    /\ jn.polls < MaxPolls
    /\ jn' = JoinPoll(jn)
    /\ UNCHANGED <<appVars, at, heapVars, steVars, mtVars, leafVars>>

\* ---- SingleThreadExecutor ------------------------------------------------
\* Futures given to an executor live on the heap (Box<dyn Future>): fut maps
\* a future's id to its state and an executor's `futures` is a sequence of
\* ids.  pc is the executor's position inside wait; passes counts the passes
\* of the for loop that the current wait has started and calls the calls of
\* wait.
FutIds == 1 .. MaxFuts

NoHeap == [id \in FutIds |-> NoFut]

ExecNew ==
    [futures |-> <<>>, pc |-> "idle", n |-> 0, num_completed |-> 0, i |-> 0,
     passes |-> 0, calls |-> 0]

\* The match of SingleThreadExecutor::spawn on the result of its one poll.
ExecPushAlways(ex, id, res) ==
    IF res = "Panic" THEN [ex EXCEPT !.pc = "panicked"]
    ELSE [ex EXCEPT !.futures = Append(@, id), !.pc = "idle"]

ExecPush(ex, id, res) ==
    IF res = "NotReady" THEN [ex EXCEPT !.futures = Append(@, id), !.pc = "idle"]
    ELSE IF res = "Panic" THEN [ex EXCEPT !.pc = "panicked"]
    ELSE [ex EXCEPT !.pc = "idle"]

\* SingleThreadExecutor::spawn: one poll, push when it is NotReady.
ExecSpawnRepoll(ex, h, id) ==
    LET p1 == PollFut(h[id])
        p == IF p1.res = "NotReady" THEN PollFut(p1.fut) ELSE p1
    IN
    [ex |-> ExecPush(ex, id, p.res),
     heap |-> [h EXCEPT ![id] = p.fut],
     res |-> p.res]

ExecSpawn(ex, h, id) ==
    LET p == PollFut(h[id]) IN
    [ex |-> ExecPush(ex, id, p.res),
     heap |-> [h EXCEPT ![id] = p.fut],
     res |-> p.res]

\* The test of wait's while loop: start another pass over futures, or leave
\* the loop, clear futures and return.
WhileCheckOffByOne(ex) ==
    IF ex.num_completed + 1 < ex.n
    THEN [ex EXCEPT !.pc = "for", !.i = 1, !.passes = @ + 1]
    ELSE [ex EXCEPT !.pc = "returned", !.futures = <<>>]

WhileCheck(ex) ==
    IF ex.num_completed < ex.n
    THEN [ex EXCEPT !.pc = "for", !.i = 1, !.passes = @ + 1]
    ELSE [ex EXCEPT !.pc = "returned", !.futures = <<>>]

\* Entry of SingleThreadExecutor::wait.
ExecWait(ex) ==
    WhileCheck([ex EXCEPT !.n = Len(ex.futures), !.num_completed = 0, !.passes = 0,
                          !.calls = @ + 1])

\* The body of the for loop of wait after futures[i] was polled: count a
\* Ready; after the last element the while test runs again.
ExecAdvance(ex, res) ==
    LET counted == [ex EXCEPT !.num_completed = IF res = "Ready" THEN @ + 1 ELSE @] IN
    IF res = "Panic" THEN [ex EXCEPT !.pc = "panicked"]
    ELSE IF ex.i = Len(ex.futures) THEN WhileCheck(counted)
    ELSE [counted EXCEPT !.i = @ + 1]

\* One iteration of the for loop of wait: poll futures[i].
ExecWaitPoll(ex, h) ==
    LET id == ex.futures[ex.i]
        p == PollFut(h[id])
    IN
    [ex |-> ExecAdvance(ex, p.res),
     heap |-> [h EXCEPT ![id] = p.fut],
     res |-> p.res]

\* retained: the ids spawn pushed on futures since the last wait returned.
SteSpawn ==
    /\ ste.pc \in {"idle", "returned"}
    /\ nextId <= MaxFuts
    /\ \E s \in Shapes :
         LET r == ExecSpawn(ste, [fut EXCEPT ![nextId] = NewFut(s[1], 0, s[2])], nextId)
             base == IF ste.pc = "returned" THEN {} ELSE retained
         IN
         /\ ste' = r.ex
         /\ fut' = r.heap
         /\ retained' = IF r.res = "NotReady" THEN base \cup {nextId} ELSE base
    /\ nextId' = nextId + 1
    /\ UNCHANGED <<appVars, futVars, mtVars>>

SteWait ==
    /\ ste.pc \in {"idle", "returned"}
    /\ ste.calls < MaxWaits
    /\ ste' = ExecWait(ste)
    /\ retained' = IF ste.pc = "returned" THEN {} ELSE retained
    /\ UNCHANGED <<appVars, futVars, heapVars, mtVars>>

SteWaitPoll ==
    /\ ste.pc = "for"
    /\ LET r == ExecWaitPoll(ste, fut) IN
         /\ ste' = r.ex
         /\ fut' = r.heap
    /\ UNCHANGED <<appVars, futVars, nextId, retained, mtVars>>

\* ---- MultiThreadExecutor -------------------------------------------------
\* queue is the mpsc channel, carrying Some(future id) or None; lock is the
\* Mutex around the receiver (0 when free, else the worker holding it).
\* wk[w] is worker thread w: its position in the loop, its thread-local
\* executor and the item it received.  main is the thread that owns the
\* MultiThreadExecutor: n, k and j are the locals of wait, sent counts every
\* None it ever sent and waits the calls of wait that returned.
\* owners[id] and polledBy[id] record the workers that dequeued and polled
\* future id, sentinels the None items a worker has dequeued, and late the
\* futures spawned after a wait returned.
Workers == 1 .. NumThreads

None == 0

WorkerNew ==
    [pc |-> "lock", ex |-> ExecNew, cur |-> None, sentinels |-> 0, waits |-> 0]

MainNew ==
    [pc |-> "run", threads |-> [i \in 1 .. NumThreads |-> i], n |-> 0, k |-> 0,
     j |-> 0, sent |-> 0, waits |-> 0]

MtIdle ==
    /\ queue = <<>> /\ lock = 0
    /\ wk = [w \in Workers |-> WorkerNew]
    /\ main = MainNew
    /\ owners = [id \in FutIds |-> {}]
    /\ polledBy = [id \in FutIds |-> {}]
    /\ late = {}

Terminated(w) == wk[w].pc \in {"done", "panicked"}

\* send succeeds while the receiver exists, that is while some worker thread
\* still holds its clone of the Arc around it.
SendOkAlways == TRUE

SendOk == \E w \in Workers : ~Terminated(w)

\* send appends to the channel, which is first in, first out.
ChannelSendFront(q, x) == <<x>> \o q

ChannelSend(q, x) == Append(q, x)

\* recv takes the item at the head of the channel.
RecvPeek(q) == [item |-> Head(q), rest |-> q]

Recv(q) == [item |-> Head(q), rest |-> Tail(q)]

\* wait sends one None per thread handle it holds.
SentinelCountExtra(threads) == Len(threads) + 1

SentinelCount(threads) == Len(threads)

\* The worker's position after its local wait: it leaves the loop (break)
\* when wait has returned.
AfterLocalWaitNoBreak(ex) ==
    CASE ex.pc = "returned" -> "lock"
      [] ex.pc = "panicked" -> "panicked"
      [] OTHER -> "waiting"

AfterLocalWait(ex) ==
    CASE ex.pc = "returned" -> "done"
      [] ex.pc = "panicked" -> "panicked"
      [] OTHER -> "waiting"

\* thread_receiver.lock()
WorkerLock(w) ==
    /\ wk[w].pc = "lock"
    /\ lock = 0
    /\ lock' = w
    /\ wk' = [wk EXCEPT ![w].pc = "recv"]
    /\ UNCHANGED <<appVars, futVars, heapVars, steVars, queue, main, owners, polledBy, late>>

\* .recv() under the lock; the guard is dropped at the end of the statement.
WorkerRecv(w) ==
    /\ wk[w].pc = "recv"
    /\ lock = w
    /\ queue # <<>>
    /\ LET r == Recv(queue) IN
         /\ queue' = r.rest
         /\ wk' = [wk EXCEPT ![w].pc = "got", ![w].cur = r.item,
                              ![w].sentinels = IF r.item = None THEN @ + 1 ELSE @]
         /\ owners' = IF r.item = None THEN owners
                       ELSE [owners EXCEPT ![r.item] = @ \cup {w}]
    /\ lock' = 0
    /\ UNCHANGED <<appVars, futVars, heapVars, steVars, main, polledBy, late>>

\* Some(fut): local_executor.spawn(fut)
WorkerSpawnLocal(w) ==
    /\ wk[w].pc = "got"
    /\ wk[w].cur # None
    /\ LET r == ExecSpawn(wk[w].ex, fut, wk[w].cur) IN
         /\ wk' = [wk EXCEPT ![w].ex = r.ex,
                              ![w].pc = IF r.ex.pc = "panicked" THEN "panicked" ELSE "lock"]
         /\ fut' = r.heap
    /\ polledBy' = [polledBy EXCEPT ![wk[w].cur] = @ \cup {w}]
    /\ UNCHANGED <<appVars, futVars, nextId, steVars, queue, lock, main, owners, late>>

\* None: local_executor.wait(); break.  This is the entry of the local wait.
WorkerWaitLocal(w) ==
    /\ wk[w].pc = "got"
    /\ wk[w].cur = None
    /\ LET ex == ExecWait(wk[w].ex) IN
         wk' = [wk EXCEPT ![w].ex = ex, ![w].pc = AfterLocalWait(ex), ![w].waits = @ + 1]
    /\ UNCHANGED <<appVars, futVars, heapVars, steVars, queue, lock, main, owners, polledBy, late>>

\* One iteration of the for loop of the local wait.
WorkerWaitPoll(w) ==
    /\ wk[w].pc = "waiting"
    /\ LET r == ExecWaitPoll(wk[w].ex, fut) IN
         /\ wk' = [wk EXCEPT ![w].ex = r.ex, ![w].pc = AfterLocalWait(r.ex)]
         /\ fut' = r.heap
    /\ polledBy' = [polledBy EXCEPT ![wk[w].ex.futures[wk[w].ex.i]] = @ \cup {w}]
    /\ UNCHANGED <<appVars, futVars, nextId, steVars, queue, lock, main, owners, late>>

\* MultiThreadExecutor::spawn: send Some(future); a failed send panics.
MtSpawn ==
    /\ main.pc = "run"
    /\ nextId <= MaxFuts
    /\ \E s \in PoolShapes :
         fut' = [fut EXCEPT ![nextId] = NewFut(s[1], 0, s[2])]
    /\ IF SendOk
       THEN queue' = ChannelSend(queue, nextId) /\ main' = main
       ELSE queue' = queue /\ main' = [main EXCEPT !.pc = "panicked"]
    /\ late' = IF main.waits > 0 THEN late \cup {nextId} ELSE late
    /\ nextId' = nextId + 1
    /\ UNCHANGED <<appVars, futVars, steVars, lock, wk, owners, polledBy>>

\* MultiThreadExecutor::wait, entry: n = self.threads.len().
MtWait ==
    /\ main.pc = "run"
    /\ main.waits < 2
    /\ LET n == SentinelCount(main.threads) IN
         main' = IF n = 0
                 THEN [main EXCEPT !.n = 0, !.k = 0, !.waits = @ + 1]
                 ELSE [main EXCEPT !.n = n, !.k = 0, !.pc = "sending"]
    /\ UNCHANGED <<appVars, futVars, heapVars, steVars, queue, lock, wk, owners, polledBy, late>>

\* One iteration of the loop that sends None.
MtSend ==
    /\ main.pc = "sending"
    /\ IF SendOk
       THEN /\ queue' = ChannelSend(queue, None)
            /\ main' = [main EXCEPT !.sent = @ + 1, !.k = @ + 1,
                                     !.pc = IF main.k + 1 = main.n THEN "joining" ELSE @,
                                     !.j = 1]
       ELSE queue' = queue /\ main' = [main EXCEPT !.pc = "panicked"]
    /\ UNCHANGED <<appVars, futVars, heapVars, steVars, lock, wk, owners, polledBy, late>>

\* One iteration of the loop that joins the threads; after the last one
\* self.threads is the empty Vec and wait returns.
MtJoin ==
    /\ main.pc = "joining"
    /\ Terminated(main.threads[main.j])
    /\ main' = IF wk[main.threads[main.j]].pc = "panicked"
               THEN [main EXCEPT !.pc = "panicked"]
               ELSE IF main.j = Len(main.threads)
               THEN [main EXCEPT !.pc = "run", !.threads = <<>>, !.waits = @ + 1]
               ELSE [main EXCEPT !.j = @ + 1]
    /\ UNCHANGED <<appVars, futVars, heapVars, steVars, queue, lock, wk, owners, polledBy, late>>

\* ---- FileReader ----------------------------------------------------------
\* rd is one FileReader, the file at its path and the worker threads it
\* started.  thread is 0 for None, else the id of the thread whose handle it
\* holds; wpc[t] and wstr[t] are thread t's position and the value it
\* returns.  id is the reader's place in an executor (0 before spawn).
\* started, polls and readies are history counters; result, item, loaded
\* and took describe the last poll: what it returned, whether it loaded the
\* flag as set and whether it took the handle.
ThreadIds == 1 .. MaxThreads

ReaderNew(exists, content) ==
    [id |-> 0, exists |-> exists, content |-> content,
     thread |-> 0, done_flag |-> FALSE,
     wpc |-> [t \in ThreadIds |-> "none"],
     wstr |-> [t \in ThreadIds |-> <<"None", 0>>],
     started |-> 0, polls |-> 0, readies |-> 0,
     result |-> "None", item |-> <<"None", 0>>, loaded |-> FALSE, took |-> FALSE]

RdIdle == ReaderNew(TRUE, 0)

\* fs::read_to_string: the contents, or the error of a path that cannot be
\* read.
ReadToString(exists, content) ==
    IF exists THEN <<"Ok", content>> ELSE <<"Err", 0>>

\* cloned_done_flag.store(true, Release), whatever the read returned.
StoreFlagOnOk(str) == str[1] = "Ok"

StoreFlag(str) == TRUE

\* handle.join() waits for the thread to return.
ReaderBlocked(r) ==
    r.thread # 0 /\ r.done_flag /\ r.wpc[r.thread] \notin {"exited", "panicked"}

ReaderCanPoll(r) ==
    /\ ~ReaderBlocked(r)
    /\ r.polls < MaxReaderPolls
    /\ r.thread = 0 => r.started < MaxThreads

\* FileReader::poll
ReaderPoll(r) ==
    LET c == [r EXCEPT !.polls = @ + 1] IN
    IF r.thread = 0
    THEN [c EXCEPT !.started = @ + 1, !.thread = r.started + 1,
                   !.wpc[r.started + 1] = "reading",
                   !.result = "NotReady", !.loaded = FALSE, !.took = FALSE]
    ELSE IF ~r.done_flag
    THEN [c EXCEPT !.result = "NotReady", !.loaded = FALSE, !.took = FALSE]
    ELSE IF r.wpc[r.thread] = "panicked"
    THEN [c EXCEPT !.thread = 0, !.result = "Panic", !.loaded = TRUE, !.took = TRUE]
    ELSE [c EXCEPT !.thread = 0, !.readies = @ + 1, !.result = "Ready",
                   !.item = r.wstr[r.thread], !.loaded = TRUE, !.took = TRUE]

\* The worker thread: read the file, ...
RdRead(t) ==
    /\ rd.wpc[t] = "reading"
    /\ rd' = [rd EXCEPT !.wstr[t] = ReadToString(rd.exists, rd.content),
                         !.wpc[t] = "storing"]
    /\ UNCHANGED <<appVars, at, jn, heapVars, steVars, mtVars, focus, im, mp, blk>>

\* ... store the flag and return the string.
RdStore(t) ==
    /\ rd.wpc[t] = "storing"
    /\ rd' = [rd EXCEPT !.done_flag = IF StoreFlag(rd.wstr[t]) THEN TRUE ELSE @,
                         !.wpc[t] = "exited"]
    /\ UNCHANGED <<appVars, at, jn, heapVars, steVars, mtVars, focus, im, mp, blk>>

\* map(FileReader::new(path), |_| ()): the unit-item future an executor
\* accepts.  Its child is rd.
RdMapNew == [MapNew(1, 0, "Once") EXCEPT !.fut = NoFut]

\* Map::poll over the reader: r is the reader after its poll.
RdMapArm(m, r) == MapArm(m, [res |-> r.result, item |-> 0])

\* SingleThreadExecutor::spawn of the mapped reader.
RdSpawn ==
    /\ rd.id = 0
    /\ ste.pc \in {"idle", "returned"}
    /\ nextId <= MaxFuts
    /\ ReaderCanPoll(rd)
    /\ LET r == ReaderPoll(rd)
           m == RdMapArm(mp, r)
           base == IF ste.pc = "returned" THEN {} ELSE retained
       IN
       /\ rd' = [r EXCEPT !.id = nextId]
       /\ mp' = m
       /\ ste' = ExecPush(ste, nextId, m.result)
       /\ retained' = IF m.result = "NotReady" THEN base \cup {nextId} ELSE base
    /\ nextId' = nextId + 1
    /\ UNCHANGED <<appVars, at, jn, fut, mtVars, focus, im, blk>>

\* The iteration of wait's for loop that polls the mapped reader.
RdWaitPoll ==
    /\ ste.pc = "for"
    /\ ste.futures[ste.i] = rd.id
    /\ ReaderCanPoll(rd)
    /\ LET r == ReaderPoll(rd)
           m == RdMapArm(mp, r)
       IN
       /\ rd' = r
       /\ mp' = m
       /\ ste' = ExecAdvance(ste, m.result)
    /\ UNCHANGED <<appVars, at, jn, heapVars, retained, mtVars, focus, im, blk>>

\* The iterations that poll the other futures of the executor.
RdOtherPoll ==
    /\ ste.pc = "for"
    /\ ste.futures[ste.i] # rd.id
    /\ SteWaitPoll

\* ---- BlockingExecutor ----------------------------------------------------
\* BlockingExecutor is a unit struct: pc and cur are the position of spawn
\* and the future it holds, waits counts the calls of wait.
BlockingNew == [pc |-> "idle", cur |-> 0, waits |-> 0]

BlkIdle == BlockingNew

\* One iteration of the loop of BlockingExecutor::spawn.
BlockingLoop(b, h) ==
    LET p == PollFut(h[b.cur]) IN
    [blk |-> IF p.res = "Panic" THEN [b EXCEPT !.pc = "panicked"]
             ELSE IF p.res = "Ready" THEN [b EXCEPT !.pc = "idle"]
             ELSE b,
     heap |-> [h EXCEPT ![b.cur] = p.fut]]

\* BlockingExecutor::wait has an empty body.
BlockingWaitPolls(b, h) ==
    [blk |-> b,
     heap |-> IF b.cur = 0 THEN h ELSE [h EXCEPT ![b.cur] = PollFut(h[b.cur]).fut]]

BlockingWait(b, h) == [blk |-> b, heap |-> h]

BlkSpawn ==
    /\ blk.pc = "idle"
    /\ nextId <= MaxFuts
    /\ \E s \in Shapes : fut' = [fut EXCEPT ![nextId] = NewFut(s[1], 0, s[2])]
    /\ blk' = [blk EXCEPT !.pc = "loop", !.cur = nextId]
    /\ nextId' = nextId + 1
    /\ UNCHANGED <<appVars, at, jn, steVars, mtVars, focus, im, mp, rd>>

BlkPoll ==
    /\ blk.pc = "loop"
    /\ LET r == BlockingLoop(blk, fut) IN
         /\ blk' = r.blk
         /\ fut' = r.heap
    /\ UNCHANGED <<appVars, at, jn, nextId, steVars, mtVars, focus, im, mp, rd>>

BlkWait ==
    /\ blk.pc = "idle"
    /\ blk.waits < MaxIdleWaits
    /\ LET r == BlockingWait(blk, fut) IN
         /\ blk' = [r.blk EXCEPT !.waits = @ + 1]
         /\ fut' = r.heap
    /\ UNCHANGED <<appVars, at, jn, nextId, steVars, mtVars, focus, im, mp, rd>>

\* ---- session channel and TCP (assign8) -----------------------------------
\* A Buffer is abstracted to one value.  c2s and s2c are the two mpsc
\* channels of Chan::new; clientAlive is FALSE once the client's Chan was
\* dropped, which closes c2s for the reader and s2c for the writer.  cpc and
\* spc are the positions of tcp_client and tcp_server; packets is the
\* server's last Vec<Packet> and recvd what tcp_server returned.
RECURSIVE SeqsUpTo(_, _)
SeqsUpTo(S, n) ==
    IF n = 0 THEN {<<>>}
    ELSE LET shorter == SeqsUpTo(S, n - 1) IN
         shorter \cup {Append(q, x) : q \in shorter, x \in S}

Msg(tag, body) == [tag |-> tag, body |-> body]

TcpNew(bufs, noisy) ==
    [bufs |-> bufs, noisy |-> noisy, c2s |-> <<>>, s2c |-> <<>>,
     clientAlive |-> TRUE, cpc |-> "start", spc |-> "recv_syn",
     packets |-> <<>>, recvd |-> <<>>]

TcpIdle == TcpNew(<<>>, FALSE)

\* Chan::read: receiver.recv().unwrap() blocks on an empty channel whose
\* sender lives and panics on an empty channel whose sender was dropped.
CanRead(q, senderAlive) == q # <<>> \/ ~senderAlive

\* Chan::recv of a Vec<Packet> with NOISY set removes the chosen indices.
RECURSIVE Remove(_, _, _)
Remove(pk, drop, i) ==
    IF i > Len(pk) THEN <<>>
    ELSE (IF i \in drop THEN <<>> ELSE <<pk[i]>>) \o Remove(pk, drop, i + 1)

RECURSIVE SortBySeqno(_)
\* packets.sort_by(|p1, p2| p1.seqno.cmp(&p2.seqno))
SortBySeqno(pk) ==
    IF pk = <<>> THEN <<>>
    ELSE LET m == CHOOSE i \in 1 .. Len(pk) :
                    \A j \in 1 .. Len(pk) :
                        pk[i].seqno < pk[j].seqno \/ (pk[i].seqno = pk[j].seqno /\ i <= j)
         IN <<pk[m]>> \o SortBySeqno(Remove(pk, {m}, 1))

get_seq_nums(pk) == [i \in 1 .. Len(pk) |-> pk[i].seqno]

get_buffers(pk) == [i \in 1 .. Len(pk) |-> pk[i].buf]

\* The body of tcp_client: every statement of it is commented out, so the
\* function returns at once and drops its channel and the buffers.
TcpClientBody(t) == [t EXCEPT !.cpc = "returned", !.clientAlive = FALSE]

\* One step of tcp_server from position t.spc; drop is the set of indices a
\* noisy recv removes.  A read on a closed empty channel and a write to a
\* closed channel panic (unwrap).
ServerRead(t, next) ==
    IF t.c2s = <<>> THEN [t EXCEPT !.spc = "panicked"]
    ELSE [t EXCEPT !.c2s = Tail(@), !.spc = next]

ServerWrite(t, m, next) ==
    IF ~t.clientAlive THEN [t EXCEPT !.spc = "panicked"]
    ELSE [t EXCEPT !.s2c = Append(@, m), !.spc = next]

TcpServerStep(t, drop) ==
    CASE t.spc = "recv_syn" -> ServerRead(t, "send_synack")
      [] t.spc = "send_synack" -> ServerWrite(t, Msg("SynAck", <<>>), "recv_ack")
      [] t.spc = "recv_ack" -> ServerRead(t, "recv_packets")
      [] t.spc = "recv_packets" ->
           IF t.c2s = <<>> THEN [t EXCEPT !.spc = "panicked"]
           ELSE LET x == Head(t.c2s).body IN
                [t EXCEPT !.c2s = Tail(@), !.spc = "send_seqnos",
                          !.packets = IF t.noisy THEN Remove(x, drop, 1) ELSE x]
      [] t.spc = "send_seqnos" ->
           ServerWrite(t, Msg("SeqNos", get_seq_nums(t.packets)), "offer")
      [] t.spc = "offer" ->
           IF t.c2s = <<>> THEN [t EXCEPT !.spc = "panicked"]
           ELSE [t EXCEPT !.c2s = Tail(@),
                          !.spc = IF Head(t.c2s).tag = "Left" THEN "send_ack"
                                  ELSE "recv_packets"]
      [] t.spc = "send_ack" -> ServerWrite(t, Msg("Ack", <<>>), "send_fin")
      [] t.spc = "send_fin" -> ServerWrite(t, Msg("Fin", <<>>), "recv_ack2")
      [] t.spc = "recv_ack2" ->
           IF t.c2s = <<>> THEN [t EXCEPT !.spc = "panicked"]
           ELSE [t EXCEPT !.c2s = Tail(@), !.spc = "returned",
                          !.recvd = get_buffers(SortBySeqno(t.packets))]
      [] OTHER -> t

Reads == {"recv_syn", "recv_ack", "recv_packets", "offer", "recv_ack2"}

TcpClient ==
    /\ tcp.cpc = "start"
    /\ tcp' = TcpClientBody(tcp)
    /\ UNCHANGED <<at, jn, heapVars, steVars, mtVars, leafVars, bt, cart>>

TcpServer ==
    /\ tcp.spc \notin {"returned", "panicked"}
    /\ tcp.spc \in Reads => CanRead(tcp.c2s, tcp.clientAlive)
    /\ \E drop \in SUBSET (1 .. MaxBufs) : tcp' = TcpServerStep(tcp, drop)
    /\ UNCHANGED <<at, jn, heapVars, steVars, mtVars, leafVars, bt, cart>>

\* ---- shopping cart (assign8) ---------------------------------------------
\* state names the struct that holds the cart (Empty, NonEmpty, Checkout),
\* items is its Vec.  last is the last method called, cost its argument and
\* before the items before it; hist lists the costs added since the last
\* clearitems or successful order.
Costs == (0 - MaxCost) .. MaxCost

CartNew == [state |-> "Empty", items |-> <<>>, last |-> "login", cost |-> 0,
            before |-> <<>>, hist |-> <<>>]

CartIdle == CartNew

RECURSIVE Sum(_)
\* self.items.iter().sum()
Sum(items) == IF items = <<>> THEN 0 ELSE Head(items) + Sum(Tail(items))

\* The test of Checkout::order: `total >= 0.0`.
OrderOkStrict(total) == total > 0

OrderOk(total) == total >= 0

\* Empty::additem and NonEmpty::additem
AddItem(c, cost) ==
    IF c.state = "Empty" THEN [c EXCEPT !.state = "NonEmpty", !.items = <<cost>>]
    ELSE [c EXCEPT !.items = Append(@, cost)]

\* NonEmpty::clearitems
ClearItems(c) == [c EXCEPT !.items = <<>>]

\* NonEmpty::checkout
Checkout(c) == [c EXCEPT !.state = "Checkout"]

\* Checkout::cancel
Cancel(c) == [c EXCEPT !.state = "NonEmpty"]

\* Checkout::order: Ok(Empty), or Err with the Checkout itself.
Order(c) ==
    IF OrderOk(Sum(c.items))
    THEN [c EXCEPT !.state = "Empty", !.items = <<>>, !.last = "order_ok"]
    ELSE [c EXCEPT !.last = "order_err"]

Called(c, name) == [c EXCEPT !.last = name, !.before = c.items]

CartAddItem ==
    /\ cart.state \in {"Empty", "NonEmpty"}
    /\ Len(cart.items) < MaxItems
    /\ \E cost \in Costs :
         cart' = [AddItem(Called(cart, "additem"), cost) EXCEPT
                     !.cost = cost, !.hist = Append(@, cost)]
    /\ UNCHANGED <<at, jn, heapVars, steVars, mtVars, leafVars, bt, tcp>>

CartClearItems ==
    /\ cart.state = "NonEmpty"
    /\ cart' = [ClearItems(Called(cart, "clearitems")) EXCEPT !.hist = <<>>]
    /\ UNCHANGED <<at, jn, heapVars, steVars, mtVars, leafVars, bt, tcp>>

CartCheckout ==
    /\ cart.state = "NonEmpty"
    /\ cart' = Checkout(Called(cart, "checkout"))
    /\ UNCHANGED <<at, jn, heapVars, steVars, mtVars, leafVars, bt, tcp>>

CartCancel ==
    /\ cart.state = "Checkout"
    /\ cart' = Cancel(Called(cart, "cancel"))
    /\ UNCHANGED <<at, jn, heapVars, steVars, mtVars, leafVars, bt, tcp>>

CartOrder ==
    /\ cart.state = "Checkout"
    /\ LET r == Order(Called(cart, "order")) IN
         cart' = [r EXCEPT !.hist = IF r.last = "order_ok" THEN <<>> ELSE @]
    /\ UNCHANGED <<at, jn, heapVars, steVars, mtVars, leafVars, bt, tcp>>

\* ---- BinaryTree (assign6) ------------------------------------------------
\* Leaf is <<>> and Node(x, l, r) is <<x, l, r>>.
Keys == 0 .. MaxKey

Leaf == <<>>

Node(x, l, r) == <<x, l, r>>

RECURSIVE ToVec(_)
\* BinaryTree::to_vec: the in-order elements.
ToVec(t) ==
    IF t = Leaf THEN <<>> ELSE ToVec(t[2]) \o <<t[1]>> \o ToVec(t[3])

RECURSIVE Sorted(_)
\* BinaryTree::sorted
Sorted(t) ==
    IF t = Leaf THEN TRUE
    ELSE LET ls == ToVec(t[2])
             rs == ToVec(t[3])
         IN
         /\ Sorted(t[2])
         /\ Sorted(t[3])
         /\ \A i \in 1 .. Len(ls) : ls[i] < t[1]
         /\ \A i \in 1 .. Len(rs) : rs[i] > t[1]

\* The second test of insert: `else if t > *x`.
GoesRightOrEqual(v, x) == v >= x

GoesRight(v, x) == v > x

RECURSIVE Insert(_, _)
\* BinaryTree::insert
Insert(t, v) ==
    IF t = Leaf THEN Node(v, Leaf, Leaf)
    ELSE IF v < t[1] THEN Node(t[1], Insert(t[2], v), t[3])
    ELSE IF GoesRight(v, t[1]) THEN Node(t[1], t[2], Insert(t[3], v))
    ELSE t

\* The test of search at a node: `*x >= *query`.
CoversStrict(x, q) == x > q

Covers(x, q) == x >= q

RECURSIVE Search(_, _)
\* BinaryTree::search: <<>> is None and <<y>> is Some(y).
Search(t, q) ==
    IF t = Leaf THEN <<>>
    ELSE LET y == Search(t[2], q) IN
         IF y # <<>> THEN y
         ELSE IF Covers(t[1], q) THEN <<t[1]>>
         ELSE Search(t[3], q)

\* prev is the tree before the last insert, v the value inserted, q the last
\* query and found its result.
BtNew == [tree |-> Leaf, prev |-> Leaf, op |-> "new", v |-> 0, q |-> 0, found |-> <<>>]

BtIdle == BtNew

BtInsert ==
    /\ \E v \in Keys :
         bt' = [bt EXCEPT !.prev = bt.tree, !.tree = Insert(bt.tree, v),
                          !.op = "insert", !.v = v]
    /\ UNCHANGED <<at, jn, heapVars, steVars, mtVars, leafVars, tcp, cart>>

BtSearch ==
    /\ \E q \in Keys :
         bt' = [bt EXCEPT !.op = "search", !.q = q, !.found = Search(bt.tree, q)]
    /\ UNCHANGED <<at, jn, heapVars, steVars, mtVars, leafVars, tcp, cart>>

\* ---- specifications -----------------------------------------------------
\* The components outside a specification's focus stay like this.
\* The components of assign6 and assign8 at rest.
AppIdle == bt = BtIdle /\ tcp = TcpIdle /\ cart = CartIdle

\* Every component of assign7 at rest.
RuntimeIdle ==
    /\ at = AtIdle /\ jn = JnIdle
    /\ fut = NoHeap /\ nextId = 1
    /\ ste = ExecNew /\ retained = {}
    /\ MtIdle
    /\ im = ImIdle /\ mp = MpIdle /\ rd = RdIdle /\ blk = BlkIdle

LeafIdle == im = ImIdle /\ mp = MpIdle /\ rd = RdIdle /\ blk = BlkIdle

InitAndThen ==
    /\ focus = "andthen"
    /\ at \in {AndThenNew(s1[1], x, s1[2], s2[1], s2[2]) :
                 s1 \in Shapes, x \in Values, s2 \in Shapes}
    /\ jn = JnIdle
    /\ fut = NoHeap /\ nextId = 1
    /\ ste = ExecNew /\ retained = {}
    /\ MtIdle
    /\ AppIdle
    /\ LeafIdle

NextAndThen == AtPoll

SpecAndThen == InitAndThen /\ [][NextAndThen]_vars

InitJoin ==
    /\ focus = "join"
    /\ jn \in {JoinNew(sa[1], v[1], sa[2], sb[1], v[2], sb[2]) :
                 sa \in Shapes, sb \in Shapes, v \in Values \X Values}
    /\ at = AtIdle
    /\ fut = NoHeap /\ nextId = 1
    /\ ste = ExecNew /\ retained = {}
    /\ MtIdle
    /\ AppIdle
    /\ LeafIdle

NextJoin == JnPoll

SpecJoin == InitJoin /\ [][NextJoin]_vars

InitSTE ==
    /\ focus = "executor"
    /\ at = AtIdle /\ jn = JnIdle
    /\ fut = NoHeap /\ nextId = 1
    /\ ste = ExecNew /\ retained = {}
    /\ MtIdle
    /\ AppIdle
    /\ LeafIdle

NextSTE == SteSpawn \/ SteWait \/ SteWaitPoll

SpecSTE == InitSTE /\ [][NextSTE]_vars

InitMT == InitSTE

InitMap ==
    /\ focus = "map"
    /\ at = AtIdle /\ jn = JnIdle
    /\ fut = NoHeap /\ nextId = 1
    /\ ste = ExecNew /\ retained = {}
    /\ MtIdle
    /\ AppIdle
    /\ im = ImIdle /\ rd = RdIdle /\ blk = BlkIdle
    /\ mp \in {MapNew(s[1], x, s[2]) : s \in Shapes, x \in Values}

NextMap == MpPoll

InitReader ==
    /\ focus = "reader"
    /\ at = AtIdle /\ jn = JnIdle
    /\ fut = NoHeap /\ nextId = 1
    /\ ste = ExecNew /\ retained = {}
    /\ MtIdle
    /\ AppIdle
    /\ im = ImIdle /\ blk = BlkIdle
    /\ mp = RdMapNew
    /\ rd \in {ReaderNew(e, c) : e \in BOOLEAN, c \in Values}

NextReader ==
    \/ RdSpawn
    \/ SteSpawn
    \/ SteWait
    \/ RdWaitPoll
    \/ RdOtherPoll
    \/ \E t \in ThreadIds : RdRead(t) \/ RdStore(t)

SpecReader == InitReader /\ [][NextReader]_vars

InitBlocking ==
    /\ focus = "blocking"
    /\ at = AtIdle /\ jn = JnIdle
    /\ fut = NoHeap /\ nextId = 1
    /\ ste = ExecNew /\ retained = {}
    /\ MtIdle
    /\ AppIdle
    /\ LeafIdle

NextBlocking == BlkSpawn \/ BlkPoll \/ BlkWait

SpecBlocking == InitBlocking /\ [][NextBlocking]_vars

SpecMap == InitMap /\ [][NextMap]_vars

InitTcp ==
    /\ focus = "tcp"
    /\ RuntimeIdle
    /\ bt = BtIdle /\ cart = CartIdle
    /\ tcp \in {TcpNew(b, n) : b \in SeqsUpTo(Values, MaxBufs), n \in BOOLEAN}

NextTcp == TcpClient \/ TcpServer

SpecTcp == InitTcp /\ [][NextTcp]_vars

InitCart ==
    /\ focus = "cart"
    /\ RuntimeIdle
    /\ bt = BtIdle /\ tcp = TcpIdle
    /\ cart = CartNew

NextCart == CartAddItem \/ CartClearItems \/ CartCheckout \/ CartCancel \/ CartOrder

SpecCart == InitCart /\ [][NextCart]_vars

InitTree ==
    /\ focus = "tree"
    /\ RuntimeIdle
    /\ bt = BtNew
    /\ tcp = TcpIdle /\ cart = CartIdle

NextTree == BtInsert \/ BtSearch

SpecTree == InitTree /\ [][NextTree]_vars

\* The three executors, one at a time.  The pool is one on which nothing is
\* spawned: its workers only ever receive the shutdown signal.
WorkerIdleStep(w) ==
    \/ WorkerLock(w)
    \/ WorkerRecv(w)
    \/ WorkerWaitLocal(w)

InitWaitIdle ==
    /\ focus \in {"blocking", "single", "pool"}
    /\ at = AtIdle /\ jn = JnIdle
    /\ fut = NoHeap /\ nextId = 1
    /\ ste = ExecNew /\ retained = {}
    /\ MtIdle
    /\ AppIdle
    /\ LeafIdle

NextWaitIdle ==
    \/ focus = "blocking" /\ NextBlocking
    \/ focus = "single" /\ NextSTE
    \/ focus = "pool" /\ (MtWait \/ MtSend \/ MtJoin)
    \/ focus = "pool" /\ \E w \in Workers : WorkerIdleStep(w)

SpecWaitIdle == InitWaitIdle /\ [][NextWaitIdle]_vars

\* The worker threads and the thread inside wait keep running.
FairSpecWaitIdle ==
    /\ SpecWaitIdle
    /\ WF_vars(MtSend)
    /\ WF_vars(MtJoin)
    /\ \A w \in Workers : WF_vars(WorkerIdleStep(w))

\* A driver that does not respect the contract: it polls one future of any
\* kind again and again, also after a Ready, until a poll panics.
ImPollAny ==
    /\ im.result # "Panic"
    /\ im' = ImmediatePoll(im)
    /\ UNCHANGED <<appVars, at, jn, heapVars, steVars, mtVars, focus, mp, rd, blk>>

MpPollAny ==
    /\ mp.result # "Panic"
    /\ mp.polls < MaxPolls
    /\ mp' = MapPoll(mp)
    /\ UNCHANGED <<appVars, at, jn, heapVars, steVars, mtVars, focus, im, rd, blk>>

JnPollAny ==
    /\ jn.result # "Panic"
    /\ jn.polls < MaxPolls
    /\ jn' = JoinPoll(jn)
    /\ UNCHANGED <<appVars, at, heapVars, steVars, mtVars, leafVars>>

AtPollAny ==
    /\ at.result # "Panic"
    /\ at.polls < MaxPolls
    /\ at' = AndThenPoll(at)
    /\ UNCHANGED <<appVars, jn, heapVars, steVars, mtVars, leafVars>>

RdPollAny ==
    /\ rd.result # "Panic"
    /\ ReaderCanPoll(rd)
    /\ rd' = ReaderPoll(rd)
    /\ UNCHANGED <<appVars, at, jn, heapVars, steVars, mtVars, focus, im, mp, blk>>

InitPollAgain ==
    /\ fut = NoHeap /\ nextId = 1
    /\ ste = ExecNew /\ retained = {}
    /\ MtIdle
    /\ AppIdle
    /\ blk = BlkIdle
    /\ focus \in {"immediate", "map", "join", "andthen", "reader"}
    /\ IF focus = "immediate" THEN im \in {ImmediateNew(v) : v \in Values}
       ELSE im = ImIdle
    /\ IF focus = "map"
       THEN mp \in {MapNew(s[1], x, s[2]) : s \in Shapes, x \in Values}
       ELSE mp = MpIdle
    /\ IF focus = "join"
       THEN jn \in {JoinNew(sa[1], v[1], sa[2], sb[1], v[2], sb[2]) :
                      sa \in Shapes, sb \in Shapes, v \in Values \X Values}
       ELSE jn = JnIdle
    /\ IF focus = "andthen"
       THEN at \in {AndThenNew(s1[1], x, s1[2], s2[1], s2[2]) :
                      s1 \in Shapes, x \in Values, s2 \in Shapes}
       ELSE at = AtIdle
    /\ IF focus = "reader"
       THEN rd \in {ReaderNew(e, c) : e \in BOOLEAN, c \in Values}
       ELSE rd = RdIdle

NextPollAgain ==
    \/ focus = "immediate" /\ ImPollAny
    \/ focus = "map" /\ MpPollAny
    \/ focus = "join" /\ JnPollAny
    \/ focus = "andthen" /\ AtPollAny
    \/ focus = "reader" /\ RdPollAny
    \/ focus = "reader" /\ \E t \in ThreadIds : RdRead(t) \/ RdStore(t)

SpecPollAgain == InitPollAgain /\ [][NextPollAgain]_vars

WorkerStep(w) ==
    \/ WorkerLock(w)
    \/ WorkerRecv(w)
    \/ WorkerSpawnLocal(w)
    \/ WorkerWaitLocal(w)
    \/ WorkerWaitPoll(w)

NextMT ==
    \/ MtSpawn
    \/ MtWait
    \/ MtSend
    \/ MtJoin
    \/ \E w \in Workers : WorkerStep(w)

SpecMT == InitMT /\ [][NextMT]_vars

\* The worker threads and the thread inside wait keep running; nothing
\* obliges the owner to call spawn or wait.
FairSpecMT ==
    /\ SpecMT
    /\ WF_vars(MtSend)
    /\ WF_vars(MtJoin)
    /\ \A w \in Workers : WF_vars(WorkerStep(w))

\* ---- claims -------------------------------------------------------------

\* C1: when the first future returns Ready and the derived future's first
\* poll returns NotReady, and_then returns NotReady and is in state Second;
\* it then returns Ready on poll number k1 + k2 - 1 and never panics under a
\* driver that stops at Ready.
C1_AndThenReachesSecond ==
    /\ at.result # "Panic"
    /\ (at.calls = 1 /\ at.second.readies = 0) => at.state = "Second"
    /\ at.result = "Ready" => at.polls = at.k1 + at.k2 - 1

\* C9: join(A, B) returns NotReady on every poll before poll number
\* max(ka, kb) and Ready((a, b)) on exactly that poll, whichever child
\* finishes first.
C9_JoinResult ==
    /\ jn.polls <= Max(jn.ka, jn.kb)
    /\ (0 < jn.polls /\ jn.polls < Max(jn.ka, jn.kb)) => jn.result = "NotReady"
    /\ jn.polls = Max(jn.ka, jn.kb) =>
          /\ jn.result = "Ready"
          /\ jn.state = "Done"
          /\ jn.item = <<jn.a, jn.b>>
    /\ jn.result = "Ready" => jn.polls = Max(jn.ka, jn.kb)

\* C9 witness: B finished first, A later, and the pair has distinct halves.
C9_Witness ==
    /\ jn.result = "Ready"
    /\ jn.prev = "SecondDone"
    /\ jn.a # jn.b
    /\ jn.item = <<jn.a, jn.b>>

\* C10: no child is polled after it returned Ready; FirstDone polls only B,
\* SecondDone only A, and each child gets exactly the polls it needs.
C10_JoinNoRepoll ==
    /\ jn.f.polls <= jn.ka /\ jn.g.polls <= jn.kb
    /\ jn.f.over = 0 /\ jn.g.over = 0
    /\ jn.prev = "FirstDone" => jn.order = <<"B">>
    /\ jn.prev = "SecondDone" => jn.order = <<"A">>
    /\ jn.result = "Ready" => (jn.f.polls = jn.ka /\ jn.g.polls = jn.kb)

\* C10 witness: A is done and a poll of the join polled B alone, B not yet Ready.
C10_Witness ==
    /\ jn.prev = "FirstDone"
    /\ jn.result = "NotReady"
    /\ jn.f.readies = 1
    /\ jn.f.polls = jn.ka

\* C2: SingleThreadExecutor.wait returns only when every future retained in
\* the pending set since the last wait has returned Ready.
C2_WaitAllReady ==
    ste.pc = "returned" => \A id \in retained : fut[id].readies >= 1

\* C3: SingleThreadExecutor never polls a future again after that future
\* returned Ready.
C3_NoPollAfterReady ==
    \A id \in FutIds : fut[id].over = 0

\* C4: under fair scheduling a call of MultiThreadExecutor.wait eventually
\* returns, with every worker terminated and joined.
C4_WaitReturns ==
    (main.pc = "sending") ~> (main.pc = "run" /\ \A w \in Workers : wk[w].pc = "done")

Spawned == {id \in FutIds : id < nextId /\ id \notin late}

\* C5: when MultiThreadExecutor.wait has returned, every future spawned
\* before it has returned Ready exactly once.
C5_AllReadyOnce ==
    main.waits >= 1 => \A id \in Spawned : fut[id].readies = 1

Occ(q, x) == Cardinality({i \in 1 .. Len(q) : q[i] = x})

RECURSIVE SentinelsTaken(_)
SentinelsTaken(S) ==
    IF S = {} THEN 0
    ELSE LET w == CHOOSE v \in S : TRUE IN wk[w].sentinels + SentinelsTaken(S \ {w})

\* C6: every item of the work queue is dequeued by exactly one worker, and a
\* future is polled only by the worker that dequeued it.
C6_OneOwner ==
    /\ \A id \in Spawned :
          /\ Occ(queue, id) + Cardinality(owners[id]) = 1
          /\ polledBy[id] \subseteq owners[id]
    /\ Occ(queue, None) + SentinelsTaken(Workers) = main.sent

\* C6 witness: two futures were dequeued and polled by two different workers.
C6_Witness ==
    \E a \in Spawned, b \in Spawned :
        /\ a # b
        /\ polledBy[a] # {} /\ polledBy[b] # {}
        /\ polledBy[a] # polledBy[b]

\* C7: wait pushes exactly one sentinel per worker and each worker dequeues
\* exactly one, after which it runs its local wait once and terminates.
C7_OneSentinelEach ==
    /\ main.sent <= NumThreads
    /\ main.pc = "joining" => main.sent = NumThreads
    /\ \A w \in Workers :
          /\ wk[w].sentinels <= 1
          /\ wk[w].waits <= wk[w].sentinels
          /\ wk[w].sentinels = 1 => wk[w].pc \in {"got", "waiting", "done", "panicked"}
          /\ Terminated(w) => (wk[w].sentinels = 1 /\ wk[w].waits = 1)
    /\ main.waits >= 1 => \A w \in Workers : wk[w].sentinels = 1 /\ wk[w].pc = "done"

\* C7 witness: wait has returned after every worker took its one sentinel
\* and ran its local wait over a retained future.
C7_Witness ==
    /\ main.waits >= 1
    /\ \A w \in Workers : wk[w].sentinels = 1 /\ wk[w].waits = 1 /\ wk[w].pc = "done"
    /\ \E w \in Workers : wk[w].ex.passes >= 1

\* C8: after wait has returned a spawn fails fatally: its future is not
\* enqueued, not dequeued and never polled.
C8_OneShot ==
    /\ \A id \in late :
          /\ Occ(queue, id) = 0
          /\ owners[id] = {}
          /\ fut[id].polls = 0
    /\ late # {} => main.pc = "panicked"

\* C8 witness: a spawn was made after wait returned and panicked.
C8_Witness ==
    /\ late # {}
    /\ main.waits >= 1
    /\ main.pc = "panicked"

\* C13: AndThen invokes its continuation exactly once, on the poll in which
\* the first future returns Ready and not before, and never polls the first
\* future after that poll.
C13_ContinuationOnce ==
    /\ at.calls = at.first.readies
    /\ at.calls <= 1
    /\ at.polls < at.k1 => at.calls = 0
    /\ at.polls >= at.k1 => at.calls = 1
    /\ at.first.polls <= at.k1
    /\ at.first.over = 0

\* C13 witness: the first future needed several polls, the continuation ran
\* once, and a later poll of the combinator left the first future alone.
C13_Witness ==
    /\ at.k1 >= 2
    /\ at.calls = 1
    /\ at.polls > at.k1
    /\ at.first.polls = at.k1

\* C14: when the derived future is Ready on its first poll, and_then
\* returns Ready(v) in the poll call in which the first future returned
\* Ready.
C14_EagerCompletion ==
    at.k2 = 1 =>
        /\ at.polls <= at.k1
        /\ (0 < at.polls /\ at.polls < at.k1) => at.result = "NotReady"
        /\ at.polls = at.k1 =>
              /\ at.result = "Ready"
              /\ at.item = at.x + 3
              /\ at.second.polls = 1

\* C14 witness: and_then(immediate(x), |x| immediate(x + 3)) after one poll.
C14_Witness ==
    /\ at.k1 = 1 /\ at.k2 = 1
    /\ at.polls = 1
    /\ at.result = "Ready"
    /\ at.item = at.x + 3

\* C12: each poll of a Map polls the child once; the transform is not
\* invoked while the child is NotReady and is invoked exactly once, on the
\* poll where the child returns Ready(x), which returns Ready(transform(x)).
C12_MapOnce ==
    /\ mp.fut.polls = mp.polls
    /\ mp.calls = mp.fut.readies
    /\ mp.calls <= 1
    /\ mp.early = 0
    /\ mp.polls < mp.k => (mp.calls = 0 /\ mp.result \in {"None", "NotReady"})
    /\ mp.polls >= mp.k =>
          /\ mp.polls = mp.k
          /\ mp.calls = 1
          /\ mp.result = "Ready"
          /\ mp.item = mp.x + 1

\* C12 witness: a child that needed several polls, then Ready(transform(x)).
C12_Witness ==
    /\ mp.k >= 2
    /\ mp.result = "Ready"
    /\ mp.calls = 1
    /\ mp.item = mp.x + 1

\* C18: BlockingExecutor.spawn returns only after its future returned
\* Ready, having polled it exactly as often as it needs and never after
\* Ready; wait changes no state and polls nothing.
C18_BlockingSpawn ==
    /\ blk.pc # "panicked"
    /\ \A id \in FutIds :
          /\ fut[id].over = 0
          /\ fut[id].polls <= fut[id].need
          /\ (id < nextId /\ (blk.pc = "idle" \/ id # blk.cur)) =>
                (fut[id].readies = 1 /\ fut[id].polls = fut[id].need)
          /\ (blk.pc = "loop" /\ id = blk.cur) => fut[id].readies = 0

\* C18 witness: spawn has returned for a future that needed several polls
\* and wait was called afterwards.
C18_Witness ==
    /\ blk.pc = "idle"
    /\ blk.waits >= 1
    /\ blk.cur # 0
    /\ fut[blk.cur].need >= 2
    /\ fut[blk.cur].polls = fut[blk.cur].need

\* C19: after three futures needing k1, k2, k3 polls were spawned, wait
\* completes all three and returns after at most max(k1, k2, k3) passes.
C19_PassBound ==
    (nextId = 4 /\ ste.calls = 1 /\ ste.pc \in {"for", "returned", "panicked"}) =>
        /\ ste.pc # "panicked"
        /\ ste.passes <= Max(fut[1].need, Max(fut[2].need, fut[3].need))
        /\ ste.pc = "returned" => \A id \in 1 .. 3 : fut[id].readies >= 1

\* C15: a FileReader starts its worker thread at most once, under every
\* sequence of polls an executor makes.
C15_OneWorker ==
    rd.started <= 1

\* C16: poll returns NotReady while the done flag is unset and Ready only on
\* a poll that loads the flag as set, which the worker sets only after the
\* read produced its result; that poll takes the join handle; an instance
\* returns Ready at most once.
C16_Handoff ==
    /\ rd.result = "Ready" => (rd.loaded /\ rd.took /\ rd.thread = 0)
    /\ (rd.result = "NotReady" /\ rd.polls > 0) => (~rd.loaded /\ ~rd.took)
    /\ rd.done_flag =>
          \E t \in ThreadIds : rd.wpc[t] = "exited" /\ rd.wstr[t][1] # "None"
    /\ rd.readies > 0 => rd.done_flag
    /\ rd.readies <= 1

\* C17: a failed read is a value: the worker sets the flag also when the
\* read fails, the future completes with Ready(Err) or Ready(Ok(contents)),
\* and FileReader::poll never panics.
C17_FailureIsValue ==
    /\ rd.result # "Panic"
    /\ \A t \in ThreadIds :
          /\ rd.wpc[t] # "panicked"
          /\ rd.wpc[t] = "exited" => rd.done_flag
    /\ rd.result = "Ready" =>
          rd.item = IF rd.exists THEN <<"Ok", rd.content>> ELSE <<"Err", 0>>

\* C17 witness: the read of a missing path completed with Ready(Err).
C17_Witness ==
    /\ ~rd.exists
    /\ rd.result = "Ready"
    /\ rd.item = <<"Err", 0>>

\* The outcome of the last poll of a future with `readies` Ready results so
\* far is the one Ready, or else a panic.
FatalAfterReady(readies, result) ==
    readies >= 1 => (result = "Panic" \/ (result = "Ready" /\ readies = 1))

\* C11: for each kind of future, a poll made after the instance returned
\* Ready panics and returns neither Ready nor NotReady; a Join or AndThen is
\* in state Done only through a poll that returned Ready.
C11_PollAfterReadyFatal ==
    /\ FatalAfterReady(im.readies, im.result)
    /\ FatalAfterReady(mp.readies, mp.result)
    /\ FatalAfterReady(jn.readies, jn.result)
    /\ FatalAfterReady(at.readies, at.result)
    /\ FatalAfterReady(rd.readies, rd.result)
    /\ jn.state = "Done" => jn.result # "NotReady"
    /\ at.state = "Done" => at.result # "NotReady"

\* BlockingExecutor::wait returns in the call and polls nothing.
BlockingWaitIdle ==
    (focus = "blocking" /\ blk'.waits = blk.waits + 1) =>
        (blk'.pc = "idle" /\ fut' = fut)

\* SingleThreadExecutor::wait with an empty pending set returns in the call
\* and polls nothing.
SingleWaitIdle ==
    (focus = "single" /\ ste'.calls = ste.calls + 1 /\ ste.futures = <<>>) =>
        (ste'.pc = "returned" /\ ste'.passes = 0 /\ fut' = fut)

\* A wait on a pool whose threads were already joined sends nothing and
\* returns in the call.
PoolSecondWaitIdle ==
    (focus = "pool" /\ main.waits >= 1 /\ main'.waits = main.waits + 1) =>
        (main.pc = "run" /\ main'.pc = "run" /\ queue' = queue /\ wk' = wk)

\* C20: wait with nothing pending returns: BlockingExecutor::wait always,
\* SingleThreadExecutor::wait with an empty pending set without a poll, the
\* first wait of a pool without futures once every worker has shut down,
\* and a second wait of that pool at once.
C20_IdleWaitReturns ==
    /\ [][BlockingWaitIdle]_vars
    /\ [][SingleWaitIdle]_vars
    /\ [][PoolSecondWaitIdle]_vars
    /\ (focus = "pool" /\ main.pc = "sending") ~>
           (/\ main.pc = "run" /\ main.waits >= 1
            /\ queue = <<>>
            /\ \A w \in Workers : wk[w].pc = "done")

\* C20 witness: the second wait of a pool without futures has returned.
C20_Witness ==
    /\ focus = "pool"
    /\ main.waits = 2
    /\ main.pc = "run"
    /\ nextId = 1

Elems(t) == {ToVec(t)[i] : i \in 1 .. Len(ToVec(t))}

\* C21: after insert(v) on a sorted tree the tree is sorted, holds v and all
\* it held before and nothing else, holds no element twice, and is unchanged
\* when v was present.
C21_InsertKeepsOrder ==
    bt.op = "insert" =>
        /\ Sorted(bt.tree)
        /\ Elems(bt.tree) = Elems(bt.prev) \cup {bt.v}
        /\ Len(ToVec(bt.tree)) = Cardinality(Elems(bt.tree))
        /\ bt.v \in Elems(bt.prev) => bt.tree = bt.prev

\* C21 witness: an insert below the root of a tree with both subtrees.
C21_Witness ==
    /\ bt.op = "insert"
    /\ bt.prev # Leaf /\ bt.prev[2] # Leaf /\ bt.prev[3] # Leaf
    /\ bt.tree # bt.prev

\* C22: search on a sorted tree returns the smallest element >= the query,
\* and None exactly when every element is smaller.
C22_SearchCeiling ==
    (bt.op = "search" /\ Sorted(bt.tree)) =>
        LET ge == {y \in Elems(bt.tree) : y >= bt.q} IN
        IF ge = {} THEN bt.found = <<>>
        ELSE bt.found = <<CHOOSE y \in ge : \A z \in ge : y <= z>>

\* C22 witness: a query that is absent and has a larger element in the left
\* subtree of the root.
C22_Witness ==
    /\ bt.op = "search"
    /\ bt.q \notin Elems(bt.tree)
    /\ bt.found # <<>>
    /\ bt.tree[2] # Leaf
    /\ bt.found[1] \in Elems(bt.tree[2])

Pending(ex) == {ex.futures[i] : i \in 1 .. Len(ex.futures)}

\* C24: spawn polls the future once and keeps it exactly when that poll was
\* NotReady: between spawn calls the pending set holds, in spawn order, only
\* futures polled once that never returned Ready, every future that was
\* Ready at spawn is absent from it, and after wait returns it is empty.
C24_SpawnPollsOnce ==
    /\ ste.pc = "idle" =>
          /\ \A id \in Pending(ste) : fut[id].polls = 1 /\ fut[id].readies = 0
          /\ \A i, j \in 1 .. Len(ste.futures) : i < j => ste.futures[i] < ste.futures[j]
          /\ \A id \in 1 .. nextId - 1 : fut[id].readies >= 1 => id \notin Pending(ste)
          /\ ste.calls = 0 =>
                \A id \in 1 .. nextId - 1 :
                    fut[id].polls = 1 /\ (id \in Pending(ste) <=> fut[id].readies = 0)
    /\ ste.pc = "returned" => ste.futures = <<>>

\* C24 witness: after a wait that returned, one spawn was Ready at once and
\* a later one is pending.
C24_Witness ==
    /\ ste.pc = "idle"
    /\ ste.calls >= 1
    /\ Len(ste.futures) = 1
    /\ \E id \in 1 .. nextId - 1 :
          fut[id].polls = 1 /\ fut[id].readies = 1 /\ id < ste.futures[1]

\* C25: a poll of a Join in BothRunning polls both children once each, A
\* before B, also when A is Ready on that poll; an AndThen polls the derived
\* future only once the first future returned Ready, and derives it from
\* the first future's item.
C25_PollOrder ==
    /\ jn.prev = "BothRunning" =>
          /\ jn.order = <<"A", "B">>
          /\ jn.f.polls = jn.polls /\ jn.g.polls = jn.polls
    /\ at.state = "First" => (at.second = NoFut /\ at.first.polls = at.polls)
    /\ at.second # NoFut =>
          /\ at.first.readies >= 1
          /\ at.second.val = at.x + 3
          /\ at.second.polls <= at.polls - at.first.polls + 1

\* C25 witness: the poll on which A returned Ready and B did not.
C25_Witness ==
    /\ jn.prev = "BothRunning"
    /\ jn.state = "FirstDone"
    /\ jn.polls >= 2
    /\ jn.g.polls = jn.polls

\* C26: a future whose poll at dequeue time was NotReady is polled again
\* only after the worker that dequeued it took a sentinel, so a future that
\* needs two or more polls is never Ready before wait was called.
C26_NoProgressBeforeShutdown ==
    \A id \in 1 .. nextId - 1 :
        /\ fut[id].polls >= 2 =>
              \A w \in polledBy[id] : wk[w].sentinels >= 1
        /\ (fut[id].need >= 2 /\ fut[id].readies >= 1) => main.sent >= 1

\* C26 witness: wait has not been called, and a future that needs two polls
\* sits in its worker's pending set after its one poll.
C26_Witness ==
    /\ main.sent = 0 /\ main.pc = "run"
    /\ \E id \in 1 .. nextId - 1, w \in Workers :
          /\ fut[id].need = 2 /\ fut[id].polls = 1
          /\ id \in Pending(wk[w].ex)
          /\ wk[w].pc = "lock"

\* C27: every future is dequeued before any sentinel, no worker terminates
\* while a future is in the queue, and when wait has returned the queue and
\* every worker's pending set are empty.
C27_QueueOrder ==
    /\ SentinelsTaken(Workers) > 0 => \A i \in 1 .. Len(queue) : queue[i] = None
    /\ (\E w \in Workers : Terminated(w)) => \A i \in 1 .. Len(queue) : queue[i] = None
    /\ main.waits >= 1 =>
          /\ queue = <<>>
          /\ \A w \in Workers : wk[w].ex.futures = <<>>

\* C27 witness: wait returned after the workers had taken futures.
C27_Witness ==
    /\ main.waits = 1
    /\ nextId > 2
    /\ late = {}
    /\ \A id \in 1 .. nextId - 1 : owners[id] # {}
    /\ \E id \in 1 .. nextId - 1 : fut[id].polls >= 2

\* C23: tcp_client against tcp_server on a fresh channel pair: neither side
\* panics, and what tcp_server returns is the client's buffers in their
\* order, with and without NOISY.
C23_TcpDelivers ==
    /\ tcp.spc # "panicked"
    /\ tcp.spc = "returned" => tcp.recvd = tcp.bufs

\* C28: order returns Ok(Empty) exactly when the sum of the costs is >= 0,
\* otherwise the same Checkout with its items unchanged, from which cancel
\* gives a NonEmpty with those items; additem, checkout and cancel keep the
\* items and their order.
C28_CartKeepsItems ==
    /\ cart.items = cart.hist
    /\ cart.last = "order_ok" => (Sum(cart.before) >= 0 /\ cart.state = "Empty")
    /\ cart.last = "order_err" =>
          (Sum(cart.before) < 0 /\ cart.state = "Checkout" /\ cart.items = cart.before)
    /\ cart.last = "cancel" => (cart.state = "NonEmpty" /\ cart.items = cart.before)
    /\ cart.last = "checkout" => (cart.state = "Checkout" /\ cart.items = cart.before)
    /\ cart.last = "additem" =>
          (cart.state = "NonEmpty" /\ cart.items = Append(cart.before, cart.cost))

\* C28 witness: a failed order of a cart with two different items.
C28_Witness ==
    /\ cart.last = "order_err"
    /\ Len(cart.items) >= 2
    /\ cart.items[1] # cart.items[2]

====
